---- MODULE Spec2Model ----
(***************************************************************************)
(* A model of text/taggers.py: the greedy averaged-perceptron              *)
(* part-of-speech tagger (PerceptronTagger).                               *)
(*                                                                         *)
(* Python strings are modelled as sequences of one-character strings, so   *)
(* that indexing, slicing, lower() and isdigit() are computed and not      *)
(* assumed: "Dog" is <<"D","o","g">>.  Tags, words, the START/END          *)
(* sentinels and the normalizer's "!..." classes are all strings of this   *)
(* kind, as they are in the source.  A feature key (name, arg, ...) is the *)
(* tuple <<name, arg, ...>> whose first element is the template name.      *)
(***************************************************************************)
EXTENDS Integers, Sequences, FiniteSets, TLC

(***************************************************************************)
(* Strings                                                                 *)
(***************************************************************************)
UpperChars ==
    <<"A","B","C","D","E","F","G","H","I","J","K","L","M",
      "N","O","P","Q","R","S","T","U","V","W","X","Y","Z">>

LowerChars ==
    <<"a","b","c","d","e","f","g","h","i","j","k","l","m",
      "n","o","p","q","r","s","t","u","v","w","x","y","z">>

DigitChars ==
    {"0","1","2","3","4","5","6","7","8","9"}

\* str.lower() on one character
LowerChar(c) ==
    IF \E k \in 1..Len(UpperChars) : UpperChars[k] = c
    THEN LowerChars[CHOOSE k \in 1..Len(UpperChars) : UpperChars[k] = c]
    ELSE c

\* word.lower()
Lower(word) ==
    [k \in 1..Len(word) |-> LowerChar(word[k])]

\* word.isdigit(): every character a digit, and at least one character
IsDigit(word) ==
    Len(word) > 0 /\ \A k \in 1..Len(word) : word[k] \in DigitChars

\* c in word
Contains(word, c) ==
    \E k \in 1..Len(word) : word[k] = c

\* word[-3:]: the last three characters, the whole word when it is shorter
Suffix3(word) ==
    IF Len(word) <= 3 THEN word ELSE SubSeq(word, Len(word) - 2, Len(word))

\* word[0] as a string of length one
First(word) ==
    <<word[1]>>

HYPHEN == <<"!","H","Y","P","H","E","N">>
YEAR   == <<"!","Y","E","A","R">>
DIGITS == <<"!","D","I","G","I","T","S">>

START1 == <<"-","S","T","A","R","T","-">>
START2 == <<"-","S","T","A","R","T","2","-">>
END1   == <<"-","E","N","D","-">>
END2   == <<"-","E","N","D","2","-">>

START == <<START1, START2>>
END   == <<END1, END2>>

\* dict.get(word) of a missing key
None == <<"<None>">>

\* Python truth value of a string or None: `not x`
Falsy(x) ==
    x = None \/ x = <<>>

(***************************************************************************)
(* PerceptronTagger._normalize                                             *)
(***************************************************************************)
\* a variant that tests the leading digit before the four-digit year
NormalizeDigitsFirst(word, cs) ==
    IF Contains(word, "-") /\ word[1] # "-" THEN HYPHEN
    ELSE IF word[1] \in DigitChars THEN DIGITS
    ELSE IF IsDigit(word) /\ Len(word) = 4 THEN YEAR
    ELSE IF ~cs THEN Lower(word)
    ELSE word

Normalize(word, cs) ==
    IF Contains(word, "-") /\ word[1] # "-" THEN HYPHEN
    ELSE IF IsDigit(word) /\ Len(word) = 4 THEN YEAR
    ELSE IF word[1] \in DigitChars THEN DIGITS
    ELSE IF ~cs THEN Lower(word)
    ELSE word

(***************************************************************************)
(* Finite maps (Python dicts)                                              *)
(***************************************************************************)
EmptyMap ==
    [x \in {} |-> 0]

Get(map, key, default) ==
    IF key \in DOMAIN map THEN map[key] ELSE default

\* map[key] = val; the entry for key comes first, so it wins over an old one
Put(map, key, val) ==
    (key :> val) @@ map

(***************************************************************************)
(* PerceptronTagger._get_features                                          *)
(*                                                                         *)
(* i is the Python (0-based) index into context; every key is added once,  *)
(* so the {key: count} dict of the source is the set of its keys, each     *)
(* with count 1.                                                           *)
(***************************************************************************)
Ctx(context, i) ==
    context[i + 1]

BaseFeatures(i, word, context, prev, prev2) ==
    { <<"prior">>,
      <<"curr suffix", Suffix3(word)>>,
      <<"curr pref1", First(word)>>,
      <<"prev tag", prev>>,
      <<"2prev tag", prev2>>,
      <<"prev tag+2prev tag", prev, prev2>>,
      <<"curr w", Ctx(context, i)>>,
      <<"prev tag+curr word", prev, Ctx(context, i)>>,
      <<"prev w", Ctx(context, i - 1)>>,
      <<"prev suff", Suffix3(Ctx(context, i - 1))>>,
      <<"2prev w", Ctx(context, i - 2)>>,
      <<"next w", Ctx(context, i + 1)>>,
      <<"next suff", Suffix3(Ctx(context, i + 1))>>,
      <<"2next w", Ctx(context, i + 2)>> }

UpperFeatures(prev) ==
    { <<"upper">>, <<"upper+prev", prev>> }

TitleFeatures(word, prev) ==
    { <<"title">>, <<"title+suffix", Suffix3(word)>>, <<"title+prev", prev>> }

\* a variant that looks the raw word up in the case sets
GetFeaturesRawCase(i, word, context, prev, prev2, ups, tits) ==
    BaseFeatures(i, word, context, prev, prev2)
      \cup (IF word \in ups THEN UpperFeatures(prev) ELSE {})
      \cup (IF word \in tits THEN TitleFeatures(word, prev) ELSE {})

GetFeatures(i, word, context, prev, prev2, ups, tits) ==
    BaseFeatures(i, word, context, prev, prev2)
      \cup (IF Ctx(context, i) \in ups THEN UpperFeatures(prev) ELSE {})
      \cup (IF Ctx(context, i) \in tits THEN TitleFeatures(word, prev) ELSE {})

(***************************************************************************)
(* The averaged perceptron (module _perceptron, imported at line 11).      *)
(* A model m is a record:                                                  *)
(*   weights  key -> (tag -> numerator), the weight being numerator/denom  *)
(*   denom    the common denominator of the stored weights                 *)
(*   classes  the known tags                                               *)
(*   totals   (key, tag) -> accumulated weight * elapsed steps             *)
(*   tstamps  (key, tag) -> step of the last change                        *)
(*   i        the step counter                                             *)
(***************************************************************************)
NewPerceptron ==
    [weights |-> EmptyMap, denom |-> 1, classes |-> {},
     totals |-> EmptyMap, tstamps |-> EmptyMap, i |-> 0]

Weight(weights, key, tag) ==
    Get(Get(weights, key, EmptyMap), tag, 0)

RECURSIVE Score(_, _, _)
Score(weights, features, tag) ==
    IF features = {} THEN 0
    ELSE LET f == CHOOSE x \in features : TRUE
         IN  Weight(weights, f, tag) + Score(weights, features \ {f}, tag)

\* the classes of maximal score
Best(m, features) ==
    { c \in m.classes :
        \A d \in m.classes :
            Score(m.weights, features, c) >= Score(m.weights, features, d) }

\* predict(features), for a model that knows a class: the class of maximal
\* score, ties going to the first tied class in a fixed order of the tags
Predict(m, features) ==
    CHOOSE c \in Best(m, features) : TRUE

\* upd_feat: account for the old weight of (f, c), then change it by v
UpdFeat(m, c, f, v) ==
    LET w     == Weight(m.weights, f, c)
        param == <<f, c>>
    IN  [m EXCEPT
           !.totals  = Put(m.totals, param,
                           Get(m.totals, param, 0)
                             + (m.i - Get(m.tstamps, param, 0)) * w),
           !.tstamps = Put(m.tstamps, param, m.i),
           !.weights = Put(m.weights, f,
                           Put(Get(m.weights, f, EmptyMap), c, w + v * m.denom))]

RECURSIVE UpdAll(_, _, _, _)
UpdAll(m, truth, guess, features) ==
    IF features = {} THEN m
    ELSE LET f == CHOOSE x \in features : TRUE
         IN  UpdAll(UpdFeat(UpdFeat(m, truth, f, 1), guess, f, -1),
                    truth, guess, features \ {f})

\* update(truth, guess, features)
Update(m, truth, guess, features) ==
    LET m1 == [m EXCEPT !.i = m.i + 1]
    IN  IF truth = guess THEN m1 ELSE UpdAll(m1, truth, guess, features)

\* average_weights() divides by the step counter
CanAverage(m) ==
    m.i > 0 \/ \A f \in DOMAIN m.weights : DOMAIN m.weights[f] = {}

\* average_weights(): every stored weight becomes its time-weighted average
\* total / i, kept as the numerator total over the denominator denom * i
AverageWeights(m) ==
    IF m.i = 0 THEN m
    ELSE [m EXCEPT
            !.weights =
                [f \in DOMAIN m.weights |->
                   [c \in DOMAIN m.weights[f] |->
                      Get(m.totals, <<f, c>>, 0)
                        + (m.i - Get(m.tstamps, <<f, c>>, 0)) * m.weights[f][c]]],
            !.denom = m.denom * m.i]

(***************************************************************************)
(* PerceptronTagger.__init__: the case profile read from en-case.txt       *)
(***************************************************************************)
\* upper_thresh = 0.05 and title_thresh = 0.3, as exact fractions
UpperThreshNum == 5
UpperThreshDen == 100
TitleThreshNum == 3
TitleThreshDen == 10

\* a row of the table is <<word, upper, title, lower>> with a positive total
RowTotal(row) ==
    row[2] + row[3] + row[4]

\* (upper / total) >= upper_thresh
UppersOf(table) ==
    { table[k][1] : k \in { j \in 1..Len(table) :
          table[j][2] * UpperThreshDen >= UpperThreshNum * RowTotal(table[j]) } }

\* (title / total) >= title_thresh
TitlesOf(table) ==
    { table[k][1] : k \in { j \in 1..Len(table) :
          table[j][3] * TitleThreshDen >= TitleThreshNum * RowTotal(table[j]) } }

(***************************************************************************)
(* PerceptronTagger._make_tagdict                                          *)
(***************************************************************************)
FreqThresh == 100
AmbiguityNum == 99
AmbiguityDen == 100

\* the body of the counting loop for one (word, tag) pair; st holds the
\* local counts and the two objects the loop writes, weights and classes
CountPair(st, word, tag) ==
    [counts  |-> Put(st.counts, word,
                     Put(Get(st.counts, word, EmptyMap), tag,
                         Get(Get(st.counts, word, EmptyMap), tag, 0) + 1)),
     weights |-> Put(st.weights, tag, EmptyMap),
     classes |-> IF tag \in st.classes THEN st.classes
                 ELSE st.classes \cup {tag}]

Min(a, b) ==
    IF a <= b THEN a ELSE b

\* zip(words, tags): as many pairs as the shorter of the two
Zip(words, tags) ==
    [k \in 1..Min(Len(words), Len(tags)) |-> <<words[k], tags[k]>>]

\* the counting loop over the pairs of one sentence, in order.  The list is
\* split in halves, and the state after the first half is computed before
\* the second half is entered, only to keep the evaluation shallow (a
\* non-empty first half always leaves a class behind).
RECURSIVE CountPairs(_, _)
CountPairs(st, pairs) ==
    IF pairs = <<>> THEN st
    ELSE IF Len(pairs) = 1 THEN CountPair(st, pairs[1][1], pairs[1][2])
    ELSE LET half == Len(pairs) \div 2
             mid  == CountPairs(st, SubSeq(pairs, 1, half))
         IN  IF mid.classes = {} THEN mid
             ELSE CountPairs(mid, SubSeq(pairs, half + 1, Len(pairs)))

RECURSIVE CountSentences(_, _)
CountSentences(st, sents) ==
    IF sents = <<>> THEN st
    ELSE CountSentences(CountPairs(st, Zip(sents[1][1], sents[1][2])), Tail(sents))

\* the order in which a dict's items are visited: fixed, but arbitrary
RECURSIVE Items(_)
Items(S) ==
    IF S = {} THEN <<>>
    ELSE LET x == CHOOSE y \in S : TRUE IN <<x>> \o Items(S \ {x})

\* the inner loop over tag_freqs.items(); acc is [n, mode, incumbent]
RECURSIVE ModeLoop(_, _, _)
ModeLoop(acc, tag_freqs, order) ==
    IF order = <<>> THEN acc
    ELSE LET tag  == order[1]
             freq == tag_freqs[tag]
             hit  == freq >= acc.mode
         IN  ModeLoop([n         |-> acc.n + freq,
                       mode      |-> IF hit THEN freq ELSE acc.mode,
                       incumbent |-> IF hit THEN tag ELSE acc.incumbent],
                      tag_freqs, Tail(order))

\* a variant whose frequency test is strict
UnambiguousStrict(n, mode) ==
    n > FreqThresh /\ mode * AmbiguityDen >= AmbiguityNum * n

\* n >= freq_thresh and (float(mode) / n) >= ambiguity_thresh
Unambiguous(n, mode) ==
    n >= FreqThresh /\ mode * AmbiguityDen >= AmbiguityNum * n

\* the outer loop over counts.items(); acc is [tagdict, incumbent, total]
RECURSIVE CacheLoop(_, _, _)
CacheLoop(acc, counts, order) ==
    IF order = <<>> THEN acc
    ELSE LET word == order[1]
             r    == ModeLoop([n |-> 0, mode |-> 0, incumbent |-> acc.incumbent],
                              counts[word], Items(DOMAIN counts[word]))
         IN  CacheLoop([tagdict   |-> IF Unambiguous(r.n, r.mode)
                                      THEN Put(acc.tagdict, word, r.incumbent)
                                      ELSE acc.tagdict,
                        incumbent |-> r.incumbent,
                        total     |-> acc.total + r.n],
                       counts, Tail(order))

\* the second half of _make_tagdict: the tag dictionary after the pass,
\* with the token total that the progress line divides by
CacheTags(td, counts) ==
    CacheLoop([tagdict |-> td, incumbent |-> None, total |-> 0],
              counts, Items(DOMAIN counts))

(***************************************************************************)
(* Inputs                                                                  *)
(***************************************************************************)
MaxTagWords == 2
MaxIter == 2

WDog == <<"D","o","g">>
Wdog == <<"d","o","g">>
WUS  == <<"U","S">>
Wus  == <<"u","s">>

TagN     == <<"N">>
TagV     == <<"V">>
TagEmpty == <<>>

Vocabulary ==
    {WDog, Wdog, WUS}

\* en-case.txt: lower-cased entries, or entries in their own case
CaseTables ==
    { << <<Wdog, 1, 3, 6>>, <<Wus, 1, 0, 19>> >>,
      << <<WDog, 0, 3, 7>>, <<WUS, 19, 2, 0>>, <<Wdog, 0, 29, 71>> >> }

RECURSIVE SeqsUpTo(_, _)
SeqsUpTo(S, n) ==
    IF n = 0 THEN {<<>>}
    ELSE LET shorter == SeqsUpTo(S, n - 1)
         IN  shorter \cup { Append(q, x) : q \in shorter, x \in S }

\* the sentences handed to tag(), already split into words
TagInputs ==
    SeqsUpTo(Vocabulary, MaxTagWords)

Repeat(x, n) ==
    [k \in 1..n |-> x]

\* labeled sentences <<words, tags>>
Labeled(ws, ts) ==
    <<ws, ts>>

SentDogdog == Labeled(<<WDog, Wdog>>, <<TagN, TagV>>)
SentUS     == Labeled(<<WUS>>, <<TagN>>)
\* more tags than words, and fewer
SentLong   == Labeled(<<Wdog>>, <<TagN, TagV>>)
SentShort  == Labeled(<<WDog, Wdog>>, <<TagN>>)
\* a word often enough to enter the tag dictionary, once with the empty tag
SentManyDog == Labeled(Repeat(Wdog, FreqThresh), Repeat(TagV, FreqThresh))
SentManyUS  == Labeled(Repeat(WUS, FreqThresh), Repeat(TagEmpty, FreqThresh))

\* the training sets handed to train()
TrainInputs ==
    { <<>>,
      <<SentDogdog>>,
      <<SentDogdog, SentUS>>,
      <<SentLong>>,
      <<SentDogdog, SentShort>>,
      <<SentManyDog>>,
      <<SentManyDog, SentDogdog>>,
      <<SentManyUS>> }

\* a pickled (weights, tagdict, classes) file not written by this tagger
ModelFiles ==
    { [written |-> TRUE, weights |-> (<<"prior">> :> (TagN :> 1)), denom |-> 1,
       tagdict |-> (WDog :> TagV @@ Wdog :> TagEmpty),
       classes |-> {TagN, TagV}] }

\* every reordering of a list (random.shuffle)
Shuffles(list) ==
    { [k \in 1..Len(list) |-> list[p[k]]] :
        p \in { q \in [1..Len(list) -> 1..Len(list)] :
                  \A a, b \in 1..Len(list) : a # b => q[a] # q[b] } }

(***************************************************************************)
(* State                                                                   *)
(***************************************************************************)
VARIABLES
    tagdict,         \* self.tagdict
    classes,         \* self.classes
    case_sensitive,  \* self.case_sensitive
    uppers,          \* self.uppers
    titles,          \* self.titles
    model,           \* self.model
    saved,           \* the file at save_loc
    pc,              \* where the running call stands
    sentences,       \* train(): the caller's list of labeled sentences
    quiet,           \* train(): quiet
    nr_iter,         \* train(): nr_iter
    iter_,           \* train(): iter_
    sidx,            \* train(): position of the sentence loop
    gold,            \* train(): tags of the current sentence
    cn,              \* train(): <<c, n>>
    words,           \* the words of the current sentence
    context,         \* context
    widx,            \* i of the word loop
    prev,            \* prev
    prev2,           \* prev2
    tags,            \* tag(): tags
    result,          \* what tag() returned
    raised,          \* the exception that ended the call, "" if none
    trained,         \* whether train() has been called on this tagger
    ev,              \* the model calls made by the last step of a word loop
    calls,           \* the model calls of train(), and the tagger it started from
    counts,          \* _make_tagdict(): counts, when the pass is followed pair by pair
    seen,            \* the (word, tag) pairs that pass has read, each with its number
    probe            \* the last call of _normalize: [called, arg, ret]

tagger == <<tagdict, classes, case_sensitive, uppers, titles, model, saved>>
locals == <<sentences, quiet, nr_iter, iter_, sidx, gold, cn, words, context,
            widx, prev, prev2, tags>>
aux == <<counts, seen, probe>>
vars == <<tagdict, classes, case_sensitive, uppers, titles, model, saved, pc,
          sentences, quiet, nr_iter, iter_, sidx, gold, cn, words, context,
          widx, prev, prev2, tags, result, raised, trained, ev, calls,
          counts, seen, probe>>

NoEvent ==
    [op |-> "none", word |-> <<>>, first |-> FALSE, covered |-> FALSE,
     prevIn |-> None, prev2In |-> None, predicts |-> 0, feats |-> {},
     updates |-> 0, truth |-> None, updFeats |-> {}, guess |-> None]

NoFile ==
    [written |-> FALSE, weights |-> EmptyMap, denom |-> 1,
     tagdict |-> EmptyMap, classes |-> {}]

\* update and average count the calls, at is the number of updates made when
\* average_weights() was called, raw the model it was called on, and
\* tagdict0 and classes0 the tagger's when train() was entered
NoCalls ==
    [update |-> 0, average |-> 0, at |-> 0, raw |-> NewPerceptron,
     tagdict0 |-> EmptyMap, classes0 |-> {}]

NoProbe ==
    [called |-> FALSE, arg |-> <<>>, ret |-> <<>>]

\* no call is running: the locals of the last one are gone
NoLocals ==
    /\ sentences = <<>> /\ quiet = FALSE /\ nr_iter = 0 /\ iter_ = 0
    /\ sidx = 0 /\ gold = <<>> /\ cn = <<0, 0>> /\ words = <<>>
    /\ context = <<>> /\ widx = 0 /\ prev = None /\ prev2 = None
    /\ tags = <<>>

\* __init__, for a case table; case_sensitive is a public attribute, False
\* after construction, that the caller may set
Constructed(table) ==
    /\ uppers = UppersOf(table)
    /\ titles = TitlesOf(table)
    /\ case_sensitive \in BOOLEAN
    /\ model = NewPerceptron
    /\ tagdict = EmptyMap
    /\ classes = {}

Init ==
    /\ \E table \in CaseTables : Constructed(table)
    /\ saved = NoFile
    /\ pc = "idle"
    /\ NoLocals
    /\ result = <<>>
    /\ raised = ""
    /\ trained = FALSE
    /\ ev = NoEvent
    /\ calls = NoCalls
    /\ counts = EmptyMap
    /\ seen = EmptyMap
    /\ probe = NoProbe

\* START + [self._normalize(w) for w in words] + END
ContextOf(ws, cs) ==
    START \o [k \in 1..Len(ws) |-> Normalize(ws[k], cs)] \o END

(***************************************************************************)
(* PerceptronTagger.load                                                   *)
(***************************************************************************)
LoadFile(file) ==
    /\ model' = [model EXCEPT !.weights = file.weights, !.denom = file.denom,
                              !.classes = file.classes]
    /\ tagdict' = file.tagdict
    /\ classes' = file.classes

\* load(loc) of a file written elsewhere, before this tagger is trained, or
\* of the file this tagger's train() wrote
Load ==
    /\ pc = "idle"
    /\ \E file \in (IF trained THEN {} ELSE ModelFiles)
                     \cup (IF saved.written THEN {saved} ELSE {}) :
         LoadFile(file)
    /\ UNCHANGED <<aux, case_sensitive, uppers, titles, saved, pc, locals, result,
                   raised, trained, ev, calls>>

(***************************************************************************)
(* PerceptronTagger.tag                                                    *)
(***************************************************************************)
\* lines 80-83; ws is the split sentence
TagStart ==
    /\ pc = "idle"
    /\ \E ws \in TagInputs :
         /\ words' = ws
         /\ context' = ContextOf(ws, case_sensitive)
    /\ prev' = START[1]
    /\ prev2' = START[2]
    /\ tags' = <<>>
    /\ widx' = 0
    /\ pc' = "tag_word"
    /\ ev' = NoEvent
    /\ UNCHANGED <<aux, tagger, sentences, quiet, nr_iter, iter_, sidx, gold, cn,
                   result, raised, trained, calls>>

\* the word is in the dictionary: `tag` is truthy
TagCached(word, tag) ==
    /\ tags' = Append(tags, tag)
    /\ prev2' = prev
    /\ prev' = tag
    /\ widx' = widx + 1
    /\ ev' = [NoEvent EXCEPT !.op = "tag", !.word = word, !.first = (widx = 0),
                             !.covered = word \in DOMAIN tagdict,
                             !.prevIn = prev, !.prev2In = prev2, !.guess = tag]
    /\ UNCHANGED <<pc, raised>>

\* `not tag`: features are extracted and the model predicts
TagPredicted(word) ==
    LET features == GetFeatures(widx + 2, word, context, prev, prev2,
                                uppers, titles)
        event == [NoEvent EXCEPT !.op = "tag", !.word = word,
                                 !.first = (widx = 0),
                                 !.covered = word \in DOMAIN tagdict,
                                 !.prevIn = prev, !.prev2In = prev2,
                                 !.predicts = 1, !.feats = features]
    IN  IF model.classes = {}
        THEN /\ pc' = "raised"
             /\ raised' = "ValueError"
             /\ ev' = event
             /\ UNCHANGED <<tags, prev, prev2, widx>>
        ELSE LET tag == Predict(model, features)
             IN /\ tags' = Append(tags, tag)
                /\ prev2' = prev
                /\ prev' = tag
                /\ widx' = widx + 1
                /\ ev' = [event EXCEPT !.guess = tag]
                /\ UNCHANGED <<pc, raised>>

\* lines 85-90 for the word at position widx
TagStep(word) ==
    IF ~Falsy(Get(tagdict, word, None))
    THEN TagCached(word, Get(tagdict, word, None))
    ELSE TagPredicted(word)

\* a variant that remembers every tag it hands out in the dictionary
TagWordCaching ==
    /\ pc = "tag_word"
    /\ widx < Len(words)
    /\ TagStep(words[widx + 1])
    /\ tagdict' = IF pc' = "raised" THEN tagdict
                  ELSE Put(tagdict, words[widx + 1], prev')
    /\ UNCHANGED <<aux, classes, case_sensitive, uppers, titles, model, saved,
                   sentences, quiet, nr_iter, iter_, sidx, gold, cn,
                   words, context, result, trained, calls>>

TagWord ==
    /\ pc = "tag_word"
    /\ widx < Len(words)
    /\ TagStep(words[widx + 1])
    /\ UNCHANGED <<aux, tagger, sentences, quiet, nr_iter, iter_, sidx, gold, cn,
                   words, context, result, trained, calls>>

\* a variant that pairs the tags with the context entries
TagResultFromContext(ws, ts) ==
    Zip(ContextOf(ws, case_sensitive), ts)

\* what tag() hands back: zip(words, tags)
TagResult(ws, ts) ==
    Zip(ws, ts)

\* line 91
TagReturn ==
    /\ pc = "tag_word"
    /\ widx = Len(words)
    /\ result' = TagResult(words, tags)
    /\ pc' = "tag_ret"
    /\ ev' = NoEvent
    /\ UNCHANGED <<aux, tagger, locals, raised, trained, calls>>

(***************************************************************************)
(* PerceptronTagger.train                                                  *)
(***************************************************************************)
\* the exception leaves the call where it stands
Raise(name) ==
    /\ pc' = "raised"
    /\ raised' = name

\* lines 96-98: _make_tagdict, then the classes and the two previous tags.
\* One tagger is followed through at most one train().
TrainStart ==
    /\ pc = "idle"
    /\ ~trained
    /\ \E sents \in TrainInputs, n_iter \in 0..MaxIter, q \in BOOLEAN :
         LET st == CountSentences([counts |-> EmptyMap,
                                   weights |-> model.weights,
                                   classes |-> classes], sents)
             ct == CacheTags(tagdict, st.counts)
         IN  /\ sentences' = sents
             /\ nr_iter' = n_iter
             /\ quiet' = q
             /\ tagdict' = ct.tagdict
             /\ classes' = st.classes
             /\ IF ~q /\ ct.total = 0
                THEN \* the progress line divides by the token total
                     /\ model' = [model EXCEPT !.weights = st.weights]
                     /\ Raise("ZeroDivisionError")
                     /\ UNCHANGED <<prev, prev2>>
                ELSE /\ model' = [model EXCEPT !.weights = st.weights,
                                               !.classes = st.classes]
                     /\ prev' = START[1]
                     /\ prev2' = START[2]
                     /\ pc' = "train_iter"
                     /\ UNCHANGED raised
    /\ iter_' = 0
    /\ trained' = TRUE
    /\ calls' = [NoCalls EXCEPT !.tagdict0 = tagdict, !.classes0 = classes]
    /\ ev' = NoEvent
    /\ UNCHANGED <<aux, case_sensitive, uppers, titles, saved, sidx, gold, cn,
                   words, context, widx, tags, result>>

\* line 99-100: the next epoch, or the end of the epochs
TrainIter ==
    /\ pc = "train_iter"
    /\ IF iter_ < nr_iter
       THEN /\ cn' = <<0, 0>>
            /\ sidx' = 0
            /\ pc' = "train_sent"
       ELSE /\ pc' = "train_avg"
            /\ UNCHANGED <<cn, sidx>>
    /\ ev' = NoEvent
    /\ UNCHANGED <<aux, tagger, sentences, quiet, nr_iter, iter_, gold, words,
                   context, widx, prev, prev2, tags, result, raised, trained,
                   calls>>

\* lines 101-102: the next sentence of the epoch and its context
TrainSentence ==
    /\ pc = "train_sent"
    /\ sidx < Len(sentences)
    /\ words' = sentences[sidx + 1][1]
    /\ gold' = sentences[sidx + 1][2]
    /\ context' = ContextOf(sentences[sidx + 1][1], case_sensitive)
    /\ widx' = 0
    /\ pc' = "train_word"
    /\ ev' = NoEvent
    /\ UNCHANGED <<aux, tagger, sentences, quiet, nr_iter, iter_, sidx, cn, prev,
                   prev2, tags, result, raised, trained, calls>>

\* line 109-110 after the guess is known: tags[i] is read for the count
TrainAdvance(event, guess) ==
    /\ prev2' = prev
    /\ prev' = guess
    /\ ev' = [event EXCEPT !.guess = guess]
    /\ IF widx < Len(gold)
       THEN /\ cn' = <<cn[1] + (IF guess = gold[widx + 1] THEN 1 ELSE 0),
                       cn[2] + 1>>
            /\ widx' = widx + 1
            /\ UNCHANGED <<pc, raised>>
       ELSE /\ Raise("IndexError")
            /\ UNCHANGED <<cn, widx>>

\* the word is in the dictionary: `guess` is truthy
TrainCached(event, guess) ==
    /\ TrainAdvance(event, guess)
    /\ UNCHANGED <<model, calls>>

\* `not guess`: predict, then update with the gold tag tags[i]
TrainPredicted(event, word) ==
    LET feats == GetFeatures(widx + 2, word, context, prev, prev2,
                             uppers, titles)
        asked == [event EXCEPT !.predicts = 1, !.feats = feats]
    IN  IF model.classes = {}
        THEN /\ Raise("ValueError")
             /\ ev' = asked
             /\ UNCHANGED <<model, calls, prev, prev2, cn, widx>>
        ELSE LET guess == Predict(model, feats)
             IN IF widx < Len(gold)
                THEN /\ model' = Update(model, gold[widx + 1], guess, feats)
                     /\ calls' = [calls EXCEPT !.update = @ + 1]
                     /\ TrainAdvance([asked EXCEPT !.updates = 1,
                                                   !.truth = gold[widx + 1],
                                                   !.updFeats = feats], guess)
                ELSE /\ Raise("IndexError")
                     /\ ev' = [asked EXCEPT !.guess = guess]
                     /\ UNCHANGED <<model, calls, prev, prev2, cn, widx>>

\* lines 104-110 for the word at position widx
TrainStep(word) ==
    LET event == [NoEvent EXCEPT !.op = "train", !.word = word,
                                 !.first = (widx = 0),
                                 !.covered = word \in DOMAIN tagdict,
                                 !.prevIn = prev, !.prev2In = prev2]
    IN  IF ~Falsy(Get(tagdict, word, None))
        THEN TrainCached(event, Get(tagdict, word, None))
        ELSE TrainPredicted(event, word)

TrainWord ==
    /\ pc = "train_word"
    /\ widx < Len(words)
    /\ TrainStep(words[widx + 1])
    /\ UNCHANGED <<aux, tagdict, classes, case_sensitive, uppers, titles, saved,
                   sentences, quiet, nr_iter, iter_, sidx, gold, words,
                   context, tags, result, trained>>

\* the word loop is exhausted: on to the next sentence
TrainSentenceEnd ==
    /\ pc = "train_word"
    /\ widx = Len(words)
    /\ sidx' = sidx + 1
    /\ pc' = "train_sent"
    /\ ev' = NoEvent
    /\ UNCHANGED <<aux, tagger, sentences, quiet, nr_iter, iter_, gold, cn, words,
                   context, widx, prev, prev2, tags, result, raised, trained,
                   calls>>

\* lines 111-113: shuffle, then the progress line, which divides by n
TrainShuffle ==
    /\ pc = "train_sent"
    /\ sidx = Len(sentences)
    /\ \E order \in Shuffles(sentences) : sentences' = order
    /\ IF ~quiet /\ cn[2] = 0
       THEN /\ Raise("ZeroDivisionError")
            /\ UNCHANGED iter_
       ELSE /\ iter_' = iter_ + 1
            /\ pc' = "train_iter"
            /\ UNCHANGED raised
    /\ ev' = NoEvent
    /\ UNCHANGED <<aux, tagger, quiet, nr_iter, sidx, gold, cn, words, context,
                   widx, prev, prev2, tags, result, trained, calls>>

\* line 114
TrainAverage ==
    /\ pc = "train_avg"
    /\ IF CanAverage(model)
       THEN /\ model' = AverageWeights(model)
            /\ calls' = [calls EXCEPT !.average = @ + 1, !.at = calls.update,
                                      !.raw = model]
            /\ pc' = "train_dump"
            /\ UNCHANGED raised
       ELSE /\ Raise("ZeroDivisionError")
            /\ calls' = [calls EXCEPT !.average = @ + 1, !.at = calls.update,
                                      !.raw = model]
            /\ UNCHANGED model
    /\ ev' = NoEvent
    /\ UNCHANGED <<aux, tagdict, classes, case_sensitive, uppers, titles, saved,
                   locals, result, trained>>

\* a variant that writes the weights as they were before averaging
PickledBeforeAverage(m, td, cl) ==
    [written |-> TRUE, weights |-> calls.raw.weights, denom |-> calls.raw.denom,
     tagdict |-> td, classes |-> cl]

\* what cPickle.dump writes: (self.model.weights, self.tagdict, self.classes)
Pickled(m, td, cl) ==
    [written |-> TRUE, weights |-> m.weights, denom |-> m.denom,
     tagdict |-> td, classes |-> cl]

\* lines 116-117
TrainDump ==
    /\ pc = "train_dump"
    /\ saved' = Pickled(model, tagdict, classes)
    /\ pc' = "train_ret"
    /\ ev' = NoEvent
    /\ UNCHANGED <<aux, tagdict, classes, case_sensitive, uppers, titles, model,
                   locals, result, raised, trained, calls>>

\* the call is over: its locals and its return value are dropped
Return ==
    /\ pc \in {"tag_ret", "train_ret"}
    /\ pc' = "idle"
    /\ sentences' = <<>> /\ quiet' = FALSE /\ nr_iter' = 0 /\ iter_' = 0
    /\ sidx' = 0 /\ gold' = <<>> /\ cn' = <<0, 0>> /\ words' = <<>>
    /\ context' = <<>> /\ widx' = 0 /\ prev' = None /\ prev2' = None
    /\ tags' = <<>>
    /\ result' = <<>>
    /\ ev' = NoEvent
    /\ UNCHANGED <<aux, tagger, raised, trained, calls>>

Next ==
    \/ Load
    \/ TagStart
    \/ TagWord
    \/ TagReturn
    \/ TrainStart
    \/ TrainIter
    \/ TrainSentence
    \/ TrainWord
    \/ TrainSentenceEnd
    \/ TrainShuffle
    \/ TrainAverage
    \/ TrainDump
    \/ Return

Spec ==
    Init /\ [][Next]_vars

(***************************************************************************)
(* _normalize on its own: any word of a few characters, and the words of   *)
(* the documented examples                                                 *)
(***************************************************************************)
MaxWordLen == 4

NormChars ==
    {"a", "B", "7", "-"}

WellKnown == <<"w","e","l","l","-","k","n","o","w","n">>
W1999     == <<"1","9","9","9">>
W3rd      == <<"3","r","d">>

NormWords ==
    (SeqsUpTo(NormChars, MaxWordLen) \ {<<>>}) \cup {WellKnown, W1999, W3rd, WDog}

NormalizeCall ==
    /\ pc = "idle"
    /\ \E word \in NormWords :
         probe' = [called |-> TRUE, arg |-> word,
                   ret |-> Normalize(word, case_sensitive)]
    /\ UNCHANGED <<tagger, pc, locals, result, raised, trained, ev, calls,
                   counts, seen>>

NextNorm ==
    NormalizeCall

SpecNorm ==
    Init /\ [][NextNorm]_vars

(***************************************************************************)
(* _make_tagdict on a fresh tagger, followed pair by pair: the training    *)
(* set is whatever pairs the counting loop is handed, up to MaxTokens      *)
(***************************************************************************)
MaxTokens == 101

\* the (word, tag) pairs the training set is made of
CountTokens ==
    { <<Wdog, TagV>>, <<Wdog, TagN>>, <<WDog, TagV>> }

InitDict ==
    /\ Constructed(<<>>)
    /\ case_sensitive = FALSE
    /\ saved = NoFile
    /\ pc = "dict_count"
    /\ NoLocals
    /\ result = <<>>
    /\ raised = ""
    /\ trained = FALSE
    /\ ev = NoEvent
    /\ calls = NoCalls
    /\ counts = EmptyMap
    /\ seen = [pair \in CountTokens |-> 0]
    /\ probe = NoProbe

RECURSIVE Sum(_, _)
Sum(f, S) ==
    IF S = {} THEN 0
    ELSE LET x == CHOOSE y \in S : TRUE IN f[x] + Sum(f, S \ {x})

\* lines 171-174 for the next pair of the training set
DictCount ==
    /\ pc = "dict_count"
    /\ Sum(seen, CountTokens) < MaxTokens
    /\ \E pair \in CountTokens :
         LET st == CountPair([counts |-> counts, weights |-> model.weights,
                              classes |-> classes], pair[1], pair[2])
         IN  /\ counts' = st.counts
             /\ model' = [model EXCEPT !.weights = st.weights]
             /\ classes' = st.classes
             /\ seen' = [seen EXCEPT ![pair] = @ + 1]
    /\ UNCHANGED <<tagdict, case_sensitive, uppers, titles, saved, pc, locals,
                   result, raised, trained, ev, calls, probe>>

\* lines 175-189, once the pairs are exhausted
DictCache ==
    /\ pc = "dict_count"
    /\ tagdict' = CacheTags(tagdict, counts).tagdict
    /\ pc' = "dict_done"
    /\ UNCHANGED <<classes, case_sensitive, uppers, titles, model, saved,
                   locals, result, raised, trained, ev, calls, counts, seen,
                   probe>>

NextDict ==
    \/ DictCount
    \/ DictCache

SpecDict ==
    InitDict /\ [][NextDict]_vars

(***************************************************************************)
(* Properties                                                              *)
(***************************************************************************)
TrainLoop ==
    {"train_iter", "train_sent", "train_word"}

\* C1: whenever tag() returns, every word that is a key of the tag dictionary
\* is paired with the tag stored for it, whatever that tag is, and no step of
\* tag() on such a word calls the model's predict.
C1_DictionaryPrecedence ==
    /\ pc = "tag_ret" =>
         \A k \in 1..Len(words) :
            words[k] \in DOMAIN tagdict =>
               result[k] = <<words[k], tagdict[words[k]]>>
    /\ (ev.op = "tag" /\ ev.covered) => ev.predicts = 0

\* C2: tag() returns one pair per input word, the k-th pair holding the k-th
\* word, and the context of the sentence has four entries more than the
\* sentence has words, entry k+2 being the normalized k-th word.
C2_TagOutputShape ==
    /\ pc = "tag_ret" =>
         /\ Len(result) = Len(words)
         /\ \A k \in 1..Len(words) : result[k][1] = words[k]
    /\ pc \in {"tag_word", "tag_ret"} =>
         /\ Len(context) = Len(words) + 4
         /\ \A k \in 0..(Len(words) - 1) :
               Ctx(context, k + 2) = Normalize(words[k + 1], case_sensitive)

C2_Witness ==
    /\ pc = "tag_ret"
    /\ Len(words) >= 2
    /\ words[1] # words[2]
    /\ Len(result) = Len(words)

Mismatched(sents) ==
    \E k \in 1..Len(sents) : Len(sents[k][1]) # Len(sents[k][2])

\* C3: a train() whose training set holds a sentence with more or fewer tags
\* than words ends in an error, and before that error no pair of it has been
\* counted into the tag dictionary or the classes and no model update made.
C3_MismatchReported ==
    Mismatched(sentences) =>
        /\ pc = "raised"
        /\ calls.update = 0
        /\ tagdict = calls.tagdict0
        /\ classes = calls.classes0

DictWords ==
    { pair[1] : pair \in CountTokens }

\* the number of times word was read, and the largest number for one tag
Occurrences(word) ==
    Sum(seen, { pair \in CountTokens : pair[1] = word })

ModeCount(word) ==
    CHOOSE m \in { seen[pair] : pair \in { q \in CountTokens : q[1] = word } } :
        \A pair \in { q \in CountTokens : q[1] = word } : seen[pair] <= m

\* C4: after _make_tagdict on a fresh tagger, a raw word is a key of the tag
\* dictionary exactly when it occurred n >= 100 times and its most frequent
\* tag mode / n >= 0.99 of them, and its entry is its most frequent tag.
C4_TagdictThresholds ==
    pc = "dict_done" =>
        \A word \in DictWords :
            /\ word \in DOMAIN tagdict <=>
                  /\ Occurrences(word) >= 100
                  /\ 100 * ModeCount(word) >= 99 * Occurrences(word)
            /\ word \in DOMAIN tagdict =>
                  /\ <<word, tagdict[word]>> \in CountTokens
                  /\ seen[<<word, tagdict[word]>>] = ModeCount(word)

C4_Witness ==
    /\ pc = "dict_done"
    /\ Wdog \in DOMAIN tagdict
    /\ seen[<<Wdog, TagN>>] > 0
    /\ WDog \notin DOMAIN tagdict
    /\ seen[<<WDog, TagV>>] > 0

HasHyphenRule(word) ==
    (\E k \in 1..Len(word) : word[k] = "-") /\ word[1] # "-"

HasYearRule(word) ==
    Len(word) = 4 /\ \A k \in 1..4 : word[k] \in DigitChars

\* C5: _normalize gives "!HYPHEN" for a word with a hyphen that is not its
\* first character; otherwise "!YEAR" for four digits; otherwise "!DIGITS"
\* for a leading digit; otherwise the word in lower case, or unchanged when
\* case sensitive; so for "well-known", "1999", "3rd" and "Dog".
C5_NormalizeRules ==
    probe.called =>
        LET word == probe.arg
            ret  == probe.ret
        IN  /\ HasHyphenRule(word) => ret = HYPHEN
            /\ (~HasHyphenRule(word) /\ HasYearRule(word)) => ret = YEAR
            /\ (~HasHyphenRule(word) /\ ~HasYearRule(word)
                  /\ word[1] \in DigitChars) => ret = DIGITS
            /\ (~HasHyphenRule(word) /\ ~HasYearRule(word)
                  /\ word[1] \notin DigitChars) =>
                  IF case_sensitive THEN ret = word
                  ELSE /\ Len(ret) = Len(word)
                       /\ \A k \in 1..Len(word) : ret[k] = LowerChar(word[k])
            /\ word = WellKnown => ret = HYPHEN
            /\ word = W1999 => ret = YEAR
            /\ word = W3rd => ret = DIGITS
            /\ (word = WDog /\ ~case_sensitive) => ret = Wdog

C5_Witness ==
    /\ probe.called
    /\ probe.arg = W1999
    /\ probe.ret = YEAR

\* C6: in train(), the first word of every sentence of every epoch is
\* processed with prev and prev2 equal to the two start sentinels.
C6_SentinelsPerSentence ==
    (ev.op = "train" /\ ev.first) =>
        /\ ev.prevIn = START[1]
        /\ ev.prev2In = START[2]

\* C7 (as stated): the features handed to predict hold the "upper" features
\* exactly when the raw word is in the uppercase set, and the "title"
\* features exactly when the raw word is in the titlecase set.
C7_CaseByRawWord ==
    ev.predicts = 1 =>
        /\ UpperFeatures(ev.prevIn) \subseteq ev.feats <=> ev.word \in uppers
        /\ UpperFeatures(ev.prevIn) \cap ev.feats # {} <=> ev.word \in uppers
        /\ TitleFeatures(ev.word, ev.prevIn) \subseteq ev.feats
              <=> ev.word \in titles
        /\ TitleFeatures(ev.word, ev.prevIn) \cap ev.feats # {}
              <=> ev.word \in titles

\* C7 (amended): the features handed to predict hold the "upper" features
\* exactly when the normalized word, context[i], is in the uppercase set, and
\* the "title" features (the suffix being the raw word's) exactly when the
\* normalized word is in the titlecase set, for either setting of the flag.
C7_CaseByNormalizedWord ==
    ev.predicts = 1 =>
        LET norm == Normalize(ev.word, case_sensitive)
        IN  /\ UpperFeatures(ev.prevIn) \subseteq ev.feats <=> norm \in uppers
            /\ UpperFeatures(ev.prevIn) \cap ev.feats # {} <=> norm \in uppers
            /\ TitleFeatures(ev.word, ev.prevIn) \subseteq ev.feats
                  <=> norm \in titles
            /\ TitleFeatures(ev.word, ev.prevIn) \cap ev.feats # {}
                  <=> norm \in titles

C7_Witness ==
    /\ ev.predicts = 1
    /\ ev.word \notin titles
    /\ Normalize(ev.word, case_sensitive) \in titles
    /\ <<"title">> \in ev.feats

\* C8: every word step of train() that completes either finds the word in
\* the tag dictionary, calls neither predict nor update and makes the stored
\* tag the next prev, or calls predict and update once each, with the same
\* features and the gold tag, and makes the prediction the next prev.
C8_TrainTokenCalls ==
    (ev.op = "train" /\ raised = "") =>
        IF ev.covered
        THEN /\ ev.predicts = 0
             /\ ev.updates = 0
             /\ prev = tagdict[ev.word]
        ELSE /\ ev.predicts = 1
             /\ ev.updates = 1
             /\ ev.updFeats = ev.feats
             /\ ev.truth = gold[widx]
             /\ prev = ev.guess

\* C9: train() calls average_weights() once: not while the epochs run, and
\* after the last update; what it then writes is the averaged weights with
\* the tag dictionary and the classes.
C9_AverageOncePersisted ==
    /\ calls.average <= 1
    /\ pc \in TrainLoop => calls.average = 0
    /\ pc \in {"train_dump", "train_ret"} =>
         /\ calls.average = 1
         /\ calls.at = calls.update
    /\ pc = "train_ret" =>
         /\ saved.written
         /\ saved.weights = AverageWeights(calls.raw).weights
         /\ saved.denom = AverageWeights(calls.raw).denom
         /\ saved.tagdict = tagdict
         /\ saved.classes = classes

C9_Witness ==
    /\ pc = "train_ret"
    /\ nr_iter > 0
    /\ calls.update > 1
    /\ saved.weights # calls.raw.weights

\* C10: once train() has built the tag dictionary, no step of train() changes
\* it, and no step of tag() ever does: only the start of train() and load()
\* write it.
C10_TagdictFrozen ==
    [][(pc # "idle" \/ pc' = "tag_word") => tagdict' = tagdict]_vars

C10_Witness ==
    /\ pc = "train_ret"
    /\ tagdict # calls.tagdict0
    /\ calls.update > 0

====
